---- MODULE Spec2Model ----
(***************************************************************************)
(* A model of the hapax8 CHIP-8 interpreter: the Chip8 struct, Init,       *)
(* LoadProgram, Decode, the field extractors, Math8 and Execute.           *)
(* All integers keep the width Go gives them (uint8 and uint16).           *)
(***************************************************************************)
EXTENDS Integers, Sequences, FiniteSets, TLC

progStart == 512
memSize == 4096
FONTSET_SIZE == 80
FONT_OFFSET == 80
gfxSize == 2048

\* Number of Execute cycles the driver loop is followed for.
MaxCycles == 6
\* Number of past machine states remembered for the multi-cycle properties.
HistLen == 3

fontSet ==
  << 240, 144, 144, 144, 240,   32,  96,  32,  32, 112,
     240,  16, 240, 128, 240,  240,  16, 240,  16, 240,
     144, 144, 240,  16,  16,  240, 128, 240,  16, 240,
     240, 128, 240, 144, 240,  240,  16,  32,  64,  64,
     240, 144, 240, 144, 240,  240, 144, 240,  16, 240,
     240, 144, 240, 144, 144,  224, 144, 224, 144, 224,
     240, 128, 128, 128, 240,  224, 144, 144, 144, 224,
     240, 128, 240, 128, 240,  240, 128, 240, 128, 128 >>

VARIABLES inst, memory, v, index, pc, gfx, delayTimer, soundTimer, stack, sp,
          status, cycles, hist

vars == << inst, memory, v, index, pc, gfx, delayTimer, soundTimer, stack, sp,
           status, cycles, hist >>

----------------------------------------------------------------------------
(* Fixed-width arithmetic and the bit operators of Go. *)

u8(n) == n % 256

u16(n) == n % 65536

RECURSIVE BitAnd(_, _)
BitAnd(a, b) ==
  IF a = 0 \/ b = 0 THEN 0
  ELSE (a % 2) * (b % 2) + 2 * BitAnd(a \div 2, b \div 2)

RECURSIVE BitOr(_, _)
BitOr(a, b) ==
  IF a = 0 THEN b
  ELSE IF b = 0 THEN a
  ELSE (IF a % 2 = 1 \/ b % 2 = 1 THEN 1 ELSE 0) + 2 * BitOr(a \div 2, b \div 2)

RECURSIVE BitXor(_, _)
BitXor(a, b) ==
  IF a = 0 THEN b
  ELSE IF b = 0 THEN a
  ELSE ((a + b) % 2) + 2 * BitXor(a \div 2, b \div 2)

RECURSIVE Pow2(_)
Pow2(n) == IF n = 0 THEN 1 ELSE 2 * Pow2(n - 1)

Shr(a, n) == a \div Pow2(n)

\* bits.RotateLeft16 of a 16-bit value.
RotateLeft16(a, n) == u16(a * Pow2(n)) + (a \div Pow2(16 - n))

----------------------------------------------------------------------------
(* The field extractors. *)

topNibble(i) == Shr(BitAnd(i, 61440), 12)

bottomNibble(i) == BitAnd(i, 15)

bottomByte(i) == BitAnd(i, 255)

targetAddr(i) == BitAnd(i, 4095)

\* Go gives & and >> the same precedence, left to right: (inst & 0x0F00) >> 8.
GetXReg(i) == Shr(BitAnd(i, 3840), 8)

GetYReg(i) == Shr(BitAnd(i, 240), 4)

\* GetImm(numDigs): the masked instruction converted to uint8.
GetImm(i, numDigs) ==
  CASE numDigs = 1 -> u8(BitAnd(i, 15))
    [] numDigs = 2 -> u8(BitAnd(i, 255))
    [] numDigs = 3 -> u8(BitAnd(i, 4095))

\* Decode: the word at address p of memory m, first byte in the high half.
Decode(m, p) == BitOr(RotateLeft16(m[p], 8), m[p + 1])

\* IncPC adding one byte instead of one word.
IncPCByte(p) == u16(p + 1)

IncPC(p) == u16(p + 2)

SetPC(newaddr) == newaddr

\* SetIndex without the 12-bit mask.
SetIndexUnmasked(i) == i

SetIndex(i) == BitAnd(i, 4095)

----------------------------------------------------------------------------
(* The state kept of a machine, as one record. *)

Chip ==
  [ inst |-> inst, memory |-> memory, v |-> v, index |-> index, pc |-> pc,
    gfx |-> gfx, delayTimer |-> delayTimer, soundTimer |-> soundTimer,
    stack |-> stack, sp |-> sp, cycles |-> cycles ]

Remember(h, c) ==
  LET all == Append(h, c)
  IN  IF Len(all) > HistLen THEN SubSeq(all, Len(all) - HistLen + 1, Len(all))
      ELSE all

\* new(Chip8) followed by Init().
Init ==
  /\ inst = 0
  /\ index = 0
  /\ pc = progStart
  /\ sp = 0
  /\ delayTimer = 0
  /\ soundTimer = 0
  /\ memory = [a \in 0..(memSize - 1) |->
                 IF a >= FONT_OFFSET /\ a < FONT_OFFSET + FONTSET_SIZE
                 THEN fontSet[a - FONT_OFFSET + 1] ELSE 0]
  /\ gfx = [k \in 0..(gfxSize - 1) |-> 0]
  /\ v = [r \in 0..15 |-> 0]
  /\ stack = [r \in 0..15 |-> 0]
  /\ status = "init"
  /\ cycles = 0
  /\ hist = << >>

----------------------------------------------------------------------------
(* Program images given to LoadProgram: the bytes of the file.  Each image  *)
(* is assembled from 16-bit words, high byte first, as c8asm writes them.   *)

Op(top, x, y, n) == top * 4096 + x * 256 + y * 16 + n

OpImm(top, x, nn) == top * 4096 + x * 256 + nn

OpAddr(top, nnn) == top * 4096 + nnn

RECURSIVE Asm(_)
Asm(ws) ==
  IF ws = << >> THEN << >>
  ELSE << Head(ws) \div 256, Head(ws) % 256 >> \o Asm(Tail(ws))

\* test_asm/test_stor: load 0xAB into v0, index := 0x00A, store v0.
StorProgram == Asm(<< 24747, 40970, 61525 >>)

\* the store program followed by index := 0x00A, v0 := 0, read v0.
ReadProgram == Asm(<< 24747, 40970, 61525, 40970, 24576, 61541 >>)

StoreReadRegs == {0, 2, 15}
StoreReadVals == {0, 171, 255}
StoreReadIdx == {10, 80, 518, 4095}
StoreReadOver == {0, 17}

StoreReadPrograms ==
  { Asm(<< OpImm(6, x, b), OpAddr(10, i), OpImm(15, x, 85),
           w, OpImm(15, x, 101) >>) :
      << x, b, i, w >> \in
        UNION { {x} \X StoreReadVals \X StoreReadIdx \X
                  ({ OpImm(6, x, c) : c \in StoreReadOver }
                     \cup { OpImm(7, x, 17), Op(8, x, 1, 3) }) :
                x \in StoreReadRegs } }

AluRegs == { << 0, 1 >>, << 1, 0 >>, << 2, 2 >>, << 3, 15 >> }
AluVals == {0, 1, 128, 255}
AluOps == {0, 1, 2, 3, 4, 5, 6, 7, 14, 9}

AluPrograms ==
  { Asm(<< OpImm(6, xy[1], a), OpImm(6, xy[2], b), Op(8, xy[1], xy[2], op) >>) :
      << xy, a, b, op >> \in AluRegs \X AluVals \X AluVals \X AluOps }

SkipRegs == { << 0, 1 >>, << 4, 4 >>, << 15, 2 >> }
SkipVals == {0, 7, 255}

SkipPrograms ==
  { Asm(<< OpImm(6, xy[1], a), OpImm(6, xy[2], b), w, OpImm(6, 5, 1),
           OpImm(6, 6, 2) >>) :
      << xy, a, b, w >> \in
        UNION { {xy} \X SkipVals \X SkipVals \X
                  { OpImm(3, xy[1], 7), OpImm(4, xy[1], 7),
                    Op(5, xy[1], xy[2], 0), Op(9, xy[1], xy[2], 0) } :
                xy \in SkipRegs } }

CallPrograms ==
  { Asm(<< OpAddr(2, 516), OpImm(6, 0, 17), 238, OpImm(6, 1, 34) >>),
    Asm(<< OpImm(6, 0, 17), OpAddr(2, 520), OpImm(6, 1, 34), 0, 238,
           OpImm(6, 2, 51) >>),
    Asm(<< 238, OpImm(6, 0, 17) >>) }

DrawPos == { << 0, 0 >>, << 1, 2 >>, << 3, 63 >>, << 4, 0 >>, << 62, 31 >> }
DrawIdx == {80, 85, 250, 512}
DrawLen == {0, 1, 5, 15}

DrawPrograms ==
  { Asm(<< OpImm(6, 1, xy[1]), OpImm(6, 2, xy[2]), OpAddr(10, i),
           Op(13, 1, 2, n), Op(13, 1, 2, n), 224 >>) :
      << xy, i, n >> \in DrawPos \X DrawIdx \X DrawLen }

\* jumps, add-immediate and words Execute has no case for.
MiscPrograms ==
  { Asm(<< OpAddr(1, 516), 0, OpImm(7, 0, 200), OpImm(7, 0, 100), 224,
           OpAddr(1, 512) >>),
    Asm(<< OpAddr(11, 291), OpImm(12, 0, 255), Op(14, 0, 9, 14),
           OpImm(15, 0, 7), 225, OpAddr(1, 4094) >>),
    Asm(<< OpAddr(1, 4095) >>),
    Asm(<< OpAddr(10, 4094), OpImm(6, 0, 111), OpImm(15, 0, 85),
           OpAddr(1, 4094) >>),
    << >> }

\* draws over a set vF, over a lit display, and right before the zero word.
FlagPrograms ==
  { Asm(<< OpImm(6, 15, 1), OpAddr(10, 80), Op(13, 0, 0, 5) >>),
    Asm(<< OpAddr(10, 80), Op(13, 0, 0, 1), OpAddr(10, 0), Op(13, 0, 0, 1) >>),
    Asm(<< OpAddr(10, 80), Op(13, 0, 0, 5), 0, 224 >>),
    Asm(<< OpAddr(10, 80), Op(13, 0, 0, 5), 16, 224 >>) }

\* an image one byte longer than the memory behind progStart: a jump to
\* 0x200, padding, and a last byte that does not fit.
OversizeProgram ==
  [k \in 1..(memSize - progStart + 1) |->
     IF k = 1 THEN 18 ELSE IF k = 2 THEN 0 ELSE 1]

Programs ==
  {StorProgram, ReadProgram, OversizeProgram} \cup StoreReadPrograms
    \cup AluPrograms \cup SkipPrograms \cup CallPrograms \cup DrawPrograms
    \cup MiscPrograms \cup FlagPrograms

----------------------------------------------------------------------------
(* LoadProgram: progFile.Read(c.memory[progStart:]) copies as many bytes as *)
(* fit behind progStart; reading an empty file returns io.EOF, which is     *)
(* passed to panic.                                                         *)

LoadProgram(prog) ==
  /\ status = "init"
  /\ IF Len(prog) = 0
     THEN /\ status' = "panic"
          /\ UNCHANGED memory
     ELSE /\ status' = "running"
          /\ memory' = [a \in 0..(memSize - 1) |->
                          IF a >= progStart /\ a - progStart < Len(prog)
                          THEN prog[a - progStart + 1] ELSE memory[a]]
  /\ UNCHANGED << inst, v, index, pc, gfx, delayTimer, soundTimer, stack, sp,
                  cycles, hist >>

----------------------------------------------------------------------------
(* Math8: the register block after the 0x8 instruction i.  xVal + yVal is   *)
(* a uint8 sum, so it has wrapped before it is compared with 255.           *)

Math8(i) ==
  LET x == GetXReg(i)
      y == GetYReg(i)
      xVal == v[x]
      yVal == v[y]
      sub == bottomNibble(i)
  IN  CASE sub = 0 -> [v EXCEPT ![x] = yVal]
        [] sub = 1 -> [v EXCEPT ![x] = BitOr(xVal, yVal)]
        [] sub = 2 -> [v EXCEPT ![x] = BitAnd(xVal, yVal)]
        [] sub = 3 -> [v EXCEPT ![x] = BitXor(xVal, yVal)]
        [] sub = 4 ->
             LET add == u8(xVal + yVal)
                 flagged == IF add > 255 THEN [v EXCEPT ![15] = 1] ELSE v
             IN  [flagged EXCEPT ![x] = u8(BitAnd(add, 255))]
        [] sub = 5 -> [v EXCEPT ![x] = u8(xVal - yVal)]
        [] sub = 6 -> [v EXCEPT ![x] = Shr(xVal, 1)]
        [] sub = 7 -> [v EXCEPT ![x] = u8(yVal - xVal)]
        [] sub = 14 -> [v EXCEPT ![x] = u8(xVal * 2)]
        [] OTHER -> v

----------------------------------------------------------------------------
(* The handlers of Execute's switch. *)

\* the clear left out: the display kept as it is.
ClearGfxKept == gfx

\* clear(c.gfx)
ClearGfx == [k \in 0..(gfxSize - 1) |-> 0]

\* SKE
SkipEqImm(i) ==
  IF GetImm(i, 2) = v[GetXReg(i)] THEN IncPC(IncPC(pc)) ELSE IncPC(pc)

\* SKNE
SkipNeImm(i) ==
  IF GetImm(i, 2) # v[GetXReg(i)] THEN IncPC(IncPC(pc)) ELSE IncPC(pc)

\* SKRE
SkipEqReg(i) ==
  IF v[GetXReg(i)] = v[GetYReg(i)] THEN IncPC(IncPC(pc)) ELSE IncPC(pc)

\* SKNRE written with the comparison of SKRE.
SkipNeRegAsEq(i) ==
  IF v[GetXReg(i)] = v[GetYReg(i)] THEN IncPC(IncPC(pc)) ELSE IncPC(pc)

\* SKNRE
SkipNeReg(i) ==
  IF v[GetXReg(i)] # v[GetYReg(i)] THEN IncPC(IncPC(pc)) ELSE IncPC(pc)

\* LOAD
LoadImm(i) == [v EXCEPT ![GetXReg(i)] = GetImm(i, 2)]

\* ADD
AddImm(i) == [v EXCEPT ![GetXReg(i)] = u8(v[GetXReg(i)] + GetImm(i, 2))]

\* The body of the draw loop: one memory byte per step into gfx[64*x+y+j],
\* the subscript computed in uint8.
RECURSIVE DrawLoop(_, _, _, _, _, _)
DrawLoop(g, i, j, bound, x, y) ==
  IF i < bound
  THEN DrawLoop([g EXCEPT ![u8(64 * x + y + j)] = memory[i]],
                u16(i + 1), u8(j + 1), bound, x, y)
  ELSE g

\* case 0xD: the loop runs from index while i < uint16(n + uint8(index)).
Draw(i) ==
  LET x == v[GetXReg(i)]
      y == v[GetYReg(i)]
      n == GetImm(i, 1)
      spriteAddr == index
      spriteLength == n
  IN  DrawLoop(gfx, spriteAddr, 0, u8(spriteLength + u8(spriteAddr)), x, y)

\* STOR storing the whole range v0..vX from index on.
StorRange(i) ==
  [a \in 0..(memSize - 1) |->
     IF a >= index /\ a <= index + GetXReg(i) THEN v[a - index] ELSE memory[a]]

\* STOR taking the register from the y field.
StorYReg(i) == [memory EXCEPT ![index] = v[GetYReg(i)]]

\* STOR
Stor(i) == [memory EXCEPT ![index] = v[GetXReg(i)]]

\* READ filling the whole range v0..vX from index on.
ReadRange(i) ==
  [r \in 0..15 |->
     IF r <= GetXReg(i) THEN memory[(index + r) % memSize] ELSE v[r]]

\* READ
Read(i) == [v EXCEPT ![GetXReg(i)] = memory[index]]

\* The switch on the top nibble: the fields it leaves behind.
Dispatch(i) ==
  LET top == topNibble(i)
      c == [pc |-> pc, v |-> v, memory |-> memory, gfx |-> gfx, index |-> index]
  IN  CASE top = 0 ->
             [c EXCEPT !.gfx = IF bottomNibble(i) = 0 THEN ClearGfx ELSE gfx,
                       !.pc = IncPC(pc)]
        [] top = 1 -> [c EXCEPT !.pc = SetPC(targetAddr(i))]
        [] top = 2 -> [c EXCEPT !.pc = SetPC(targetAddr(i))]
        [] top = 3 -> [c EXCEPT !.pc = SkipEqImm(i)]
        [] top = 4 -> [c EXCEPT !.pc = SkipNeImm(i)]
        [] top = 5 -> [c EXCEPT !.pc = SkipEqReg(i)]
        [] top = 6 -> [c EXCEPT !.v = LoadImm(i), !.pc = IncPC(pc)]
        [] top = 7 -> [c EXCEPT !.v = AddImm(i), !.pc = IncPC(pc)]
        [] top = 8 -> [c EXCEPT !.v = Math8(i), !.pc = IncPC(pc)]
        [] top = 9 -> [c EXCEPT !.pc = SkipNeReg(i)]
        [] top = 10 -> [c EXCEPT !.index = SetIndex(i), !.pc = IncPC(pc)]
        [] top = 13 -> [c EXCEPT !.gfx = Draw(i), !.pc = IncPC(pc)]
        [] top = 15 /\ bottomByte(i) = 85 ->
             [c EXCEPT !.memory = Stor(i), !.pc = IncPC(pc)]
        [] top = 15 /\ bottomByte(i) = 101 ->
             [c EXCEPT !.v = Read(i), !.pc = IncPC(pc)]
        [] OTHER -> c

\* The timer updates that close Execute.
TimerStep(t) == IF t > 0 THEN t - 1 ELSE t

\* Execute: Decode, the early return on the zero word, the switch, the timers.
\* Decode's memory[pc] or memory[pc+1] outside the slice is a runtime panic.
Execute ==
  /\ status = "running"
  /\ cycles < MaxCycles
  /\ cycles' = cycles + 1
  /\ hist' = Remember(hist, Chip)
  /\ UNCHANGED << stack, sp >>
  /\ IF pc + 1 > memSize - 1
     THEN /\ status' = "panic"
          /\ UNCHANGED << inst, memory, v, index, pc, gfx, delayTimer,
                          soundTimer >>
     ELSE LET i == Decode(memory, pc)
          IN  /\ inst' = i
              /\ UNCHANGED status
              /\ IF i = 0
                 THEN UNCHANGED << memory, v, index, pc, gfx, delayTimer,
                                   soundTimer >>
                 ELSE LET c == Dispatch(i)
                      IN  /\ pc' = c.pc
                          /\ v' = c.v
                          /\ memory' = c.memory
                          /\ gfx' = c.gfx
                          /\ index' = c.index
                          /\ delayTimer' = TimerStep(delayTimer)
                          /\ soundTimer' = TimerStep(soundTimer)

Next ==
  \/ \E prog \in Programs : LoadProgram(prog)
  \/ Execute

Spec == Init /\ [][Next]_vars

----------------------------------------------------------------------------
(* Reading the history: Before is the machine as the last Execute found it, *)
(* Back(k) the machine k cycles earlier still.                              *)

Stepped == status = "running" /\ Len(hist) > 0

SteppedTimes(k) == status = "running" /\ Len(hist) >= k

Before == hist[Len(hist)]

Back(k) == hist[Len(hist) - k]

WordAt(c) == c.memory[c.pc] * 256 + c.memory[c.pc + 1]

ClassOf(w) == w \div 4096

XOf(w) == (w \div 256) % 16

YOf(w) == (w \div 16) % 16

LowByte(w) == w % 256

LowNibble(w) == w % 16

IsStorWord(w) == ClassOf(w) = 15 /\ LowByte(w) = 85

IsReadWord(w) == ClassOf(w) = 15 /\ LowByte(w) = 101

\* The machine right after Init and LoadProgram(prog).
FreshlyLoaded(c, prog) ==
  /\ c.cycles = 0
  /\ c.pc = progStart
  /\ \A a \in 0..(memSize - 1) :
       c.memory[a] =
         IF a >= progStart /\ a < progStart + Len(prog) THEN prog[a - progStart + 1]
         ELSE IF a >= FONT_OFFSET /\ a < FONT_OFFSET + FONTSET_SIZE
              THEN fontSet[a - FONT_OFFSET + 1] ELSE 0

----------------------------------------------------------------------------
\* C1: a cycle on the word FX55 leaves memory[index] equal to the value v[X]
\* had before the cycle, leaves every other memory byte as it was and moves
\* pc on by 2; and the image 60AB A00A F055 loaded at 0x200 after Init has
\* memory[0x00A] = 0xAB after 3 cycles.
C1_Store ==
  /\ (Stepped /\ IsStorWord(WordAt(Before))) =>
       /\ memory[Before.index] = Before.v[XOf(WordAt(Before))]
       /\ \A a \in 0..(memSize - 1) :
            a # Before.index => memory[a] = Before.memory[a]
       /\ pc = Before.pc + 2
  /\ (SteppedTimes(3) /\ FreshlyLoaded(Back(2), StorProgram)) => memory[10] = 171

C1_Witness ==
  /\ SteppedTimes(3)
  /\ FreshlyLoaded(Back(2), StorProgram)
  /\ IsStorWord(WordAt(Before))
  /\ Before.memory[10] = 0
  /\ memory[10] = 171

\* C2: a cycle on the word FX65 leaves v[X] equal to memory[index], leaves
\* every other general register and all of memory as they were and moves pc
\* on by 2; and the words A00A 6000 F065 run from a machine whose
\* memory[0x00A] is 0xAB leave v[0] = 0xAB.
C2_Read ==
  /\ (Stepped /\ IsReadWord(WordAt(Before))) =>
       /\ v[XOf(WordAt(Before))] = Before.memory[Before.index]
       /\ \A r \in 0..15 : r # XOf(WordAt(Before)) => v[r] = Before.v[r]
       /\ memory = Before.memory
       /\ pc = Before.pc + 2
  /\ ( /\ SteppedTimes(3)
       /\ Back(2).memory[10] = 171
       /\ WordAt(Back(2)) = 40970
       /\ WordAt(Back(1)) = 24576
       /\ WordAt(Before) = 61541 ) => v[0] = 171

C2_Witness ==
  /\ SteppedTimes(3)
  /\ Back(2).memory[10] = 171
  /\ WordAt(Back(2)) = 40970
  /\ WordAt(Back(1)) = 24576
  /\ WordAt(Before) = 61541
  /\ Before.v[0] = 0
  /\ v[0] = 171

\* A word that writes register x: load immediate, add immediate or an 0x8 op.
OverwritesReg(w, x) == ClassOf(w) \in {6, 7, 8} /\ XOf(w) = x

\* The last three cycles were FX55, a write of v[X], FX65 on the same index.
StoreOverwriteRead ==
  /\ SteppedTimes(3)
  /\ IsStorWord(WordAt(Back(2)))
  /\ OverwritesReg(WordAt(Back(1)), XOf(WordAt(Back(2))))
  /\ IsReadWord(WordAt(Before))
  /\ XOf(WordAt(Before)) = XOf(WordAt(Back(2)))
  /\ Before.index = Back(2).index

\* C3: store FX55, then any overwrite of v[X], then read FX65 with the same
\* index gives v[X] the value it had before the store.
C3_RoundTrip ==
  StoreOverwriteRead => v[XOf(WordAt(Before))] = Back(2).v[XOf(WordAt(Before))]

C3_Witness ==
  /\ StoreOverwriteRead
  /\ Before.v[XOf(WordAt(Before))] # Back(2).v[XOf(WordAt(Before))]
  /\ v[XOf(WordAt(Before))] = 171

----------------------------------------------------------------------------
(* The 0x8 class. *)

IsAluWord(w, sub) ==
  ClassOf(w) = 8 /\ LowNibble(w) = sub /\ XOf(w) # 15 /\ YOf(w) # 15

AluA == Before.v[XOf(WordAt(Before))]

AluB == Before.v[YOf(WordAt(Before))]

\* C4: after a cycle on 8XY4 with a = v[X], b = v[Y] and X, Y other than F,
\* vF is 1 if a + b > 255 and 0 otherwise, and v[X] is (a + b) mod 256.
C4_AluAdd ==
  (Stepped /\ IsAluWord(WordAt(Before), 4)) =>
    /\ v[15] = IF AluA + AluB > 255 THEN 1 ELSE 0
    /\ v[XOf(WordAt(Before))] = (AluA + AluB) % 256

\* C5: after a cycle on 8XY6, vF is the low bit of a = v[X] and v[X] is a >> 1;
\* after a cycle on 8XYE, vF is the high bit of a and v[X] is (a << 1) mod 256.
C5_AluShift ==
  /\ (Stepped /\ IsAluWord(WordAt(Before), 6)) =>
       /\ v[15] = AluA % 2
       /\ v[XOf(WordAt(Before))] = AluA \div 2
  /\ (Stepped /\ IsAluWord(WordAt(Before), 14)) =>
       /\ v[15] = AluA \div 128
       /\ v[XOf(WordAt(Before))] = (AluA * 2) % 256

\* C6: after a cycle on 8XY5, vF is 1 iff a >= b and v[X] is (a - b) mod 256;
\* after a cycle on 8XY7, vF is 1 iff b >= a and v[X] is (b - a) mod 256.
C6_AluSub ==
  /\ (Stepped /\ IsAluWord(WordAt(Before), 5)) =>
       /\ v[15] = IF AluA >= AluB THEN 1 ELSE 0
       /\ v[XOf(WordAt(Before))] = (AluA - AluB) % 256
  /\ (Stepped /\ IsAluWord(WordAt(Before), 7)) =>
       /\ v[15] = IF AluB >= AluA THEN 1 ELSE 0
       /\ v[XOf(WordAt(Before))] = (AluB - AluA) % 256

----------------------------------------------------------------------------
(* The skip instructions. *)

IsSkipWord(w) ==
  \/ ClassOf(w) \in {3, 4}
  \/ ClassOf(w) \in {5, 9} /\ LowNibble(w) = 0

\* The documented condition of the skip word w in machine c.
SkipTaken(c, w) ==
  CASE ClassOf(w) = 3 -> c.v[XOf(w)] = LowByte(w)
    [] ClassOf(w) = 4 -> c.v[XOf(w)] # LowByte(w)
    [] ClassOf(w) = 5 -> c.v[XOf(w)] = c.v[YOf(w)]
    [] ClassOf(w) = 9 -> c.v[XOf(w)] # c.v[YOf(w)]

\* C7: a cycle on 3XNN, 4XNN, 5XY0 or 9XY0 moves pc on by exactly 4 when the
\* word's condition holds and by exactly 2 when it does not, and changes no
\* general register, nor index, the stack or its pointer, and no memory byte.
C7_Skip ==
  (Stepped /\ IsSkipWord(WordAt(Before))) =>
    /\ pc = Before.pc + (IF SkipTaken(Before, WordAt(Before)) THEN 4 ELSE 2)
    /\ v = Before.v
    /\ index = Before.index
    /\ memory = Before.memory
    /\ stack = Before.stack
    /\ sp = Before.sp

C7_Witness ==
  /\ Stepped
  /\ IsSkipWord(WordAt(Before))
  /\ SkipTaken(Before, WordAt(Before))
  /\ ClassOf(WordAt(Before)) = 9
  /\ pc = Before.pc + 4

----------------------------------------------------------------------------
\* C8: a call 2NNN executed at address p whose target NNN holds 00EE is
\* followed, after the two cycles, by pc = p + 2 and the stack pointer the
\* call found.
C8_CallReturn ==
  ( /\ SteppedTimes(2)
    /\ ClassOf(WordAt(Back(1))) = 2
    /\ Back(1).memory[WordAt(Back(1)) % 4096] = 0
    /\ Back(1).memory[(WordAt(Back(1)) % 4096) + 1] = 238
    /\ WordAt(Before) = 238 ) =>
      /\ pc = Back(1).pc + 2
      /\ sp = Back(1).sp

----------------------------------------------------------------------------
(* The display: cell (col, row) of the 64 x 32 bitmap is gfx[64 * row + col]. *)

BitOf(b, n) == (b \div Pow2(n)) % 2

IsDrawWord(w) == ClassOf(w) = 13

\* The sprite bit the word w of machine c lays on cell (col, row): bit 7 - k
\* of memory[index + r] when the cell is column k of row r of the sprite.
SpriteBit(c, w, col, row) ==
  LET hits == { rk \in (0..(LowNibble(w) - 1)) \X (0..7) :
                  /\ col = (c.v[XOf(w)] + rk[2]) % 64
                  /\ row = (c.v[YOf(w)] + rk[1]) % 32 }
  IN  IF hits = {} THEN 0
      ELSE LET rk == CHOOSE h \in hits : TRUE
           IN  BitOf(c.memory[c.index + rk[1]], 7 - rk[2])

\* C9: after a cycle on DXYN every cell the sprite covers holds its previous
\* value XOR the sprite bit, every other cell is unchanged, pc moved on by 2.
C9_Draw ==
  (Stepped /\ IsDrawWord(WordAt(Before))) =>
    /\ \A row \in 0..31 : \A col \in 0..63 :
         gfx[64 * row + col] =
           BitXor(Before.gfx[64 * row + col],
                  SpriteBit(Before, WordAt(Before), col, row))
    /\ pc = Before.pc + 2

\* C10: the same draw word executed twice in a row, with v[X], v[Y], index
\* and the sprite bytes unchanged in between, leaves the display as it was
\* before the first of the two.
C10_DrawTwice ==
  ( /\ SteppedTimes(2)
    /\ IsDrawWord(WordAt(Before))
    /\ WordAt(Back(1)) = WordAt(Before)
    /\ Back(1).v = Before.v
    /\ Back(1).index = Before.index
    /\ Back(1).memory = Before.memory ) => gfx = Back(1).gfx

----------------------------------------------------------------------------
\* A display cell is lit when it is not 0.
WentUnlit == \E k \in 0..(gfxSize - 1) : Before.gfx[k] # 0 /\ gfx[k] = 0

\* C11: after a cycle on DXYN, vF is 1 if at least one display cell went from
\* lit to unlit during the draw, and 0 otherwise.
C11_Collision ==
  (Stepped /\ IsDrawWord(WordAt(Before))) =>
    v[15] = IF WentUnlit THEN 1 ELSE 0

----------------------------------------------------------------------------
IsClearWord(w) == ClassOf(w) = 0 /\ LowNibble(w) = 0

Blank == \A k \in 0..(gfxSize - 1) : gfx[k] = 0

----------------------------------------------------------------------------
(* Execute on a machine whose owner has set the timers: delayTimer and      *)
(* soundTimer are fields of Chip8 that no opcode of Execute writes, so a    *)
(* machine with a running timer is one whose fields were assigned between   *)
(* Init and the first Execute.                                              *)

TimerVals == { << 0, 0 >>, << 3, 0 >>, << 0, 2 >>, << 255, 1 >> }

TimerPrograms == SkipPrograms \cup MiscPrograms

InitTimers ==
  /\ inst = 0
  /\ index = 0
  /\ pc = progStart
  /\ sp = 0
  /\ \E t \in TimerVals : delayTimer = t[1] /\ soundTimer = t[2]
  /\ memory = [a \in 0..(memSize - 1) |->
                 IF a >= FONT_OFFSET /\ a < FONT_OFFSET + FONTSET_SIZE
                 THEN fontSet[a - FONT_OFFSET + 1] ELSE 0]
  /\ gfx = [k \in 0..(gfxSize - 1) |-> 0]
  /\ v = [r \in 0..15 |-> 0]
  /\ stack = [r \in 0..15 |-> 0]
  /\ status = "init"
  /\ cycles = 0
  /\ hist = << >>

NextTimers ==
  \/ \E prog \in TimerPrograms : LoadProgram(prog)
  \/ Execute

SpecTimers == InitTimers /\ [][NextTimers]_vars

\* C13: one Execute cycle leaves delayTimer and soundTimer as they were, also
\* when one of them is not 0.
C13_TimersKept ==
  Stepped =>
    /\ delayTimer = Before.delayTimer
    /\ soundTimer = Before.soundTimer

----------------------------------------------------------------------------
\* The machine is loaded and about to run on the part of the oversize image
\* that fits behind progStart.
RunsTruncatedImage ==
  /\ status = "running"
  /\ cycles = 0
  /\ \A a \in progStart..(memSize - 1) :
       memory[a] = OversizeProgram[a - progStart + 1]

\* C14: LoadProgram given an image longer than the memSize - progStart bytes
\* behind the load address ends in an error: no machine is left loaded with
\* the truncated image and ready to execute it.
C14_LoadError ==
  Len(OversizeProgram) > memSize - progStart => ~RunsTruncatedImage

----------------------------------------------------------------------------
\* Words that set the program counter themselves: jump, call, return.
SetsPc(w) == ClassOf(w) \in {1, 2} \/ w = 238

\* C15: a cycle on any word that is not a jump, a call or the return,
\* 0x0000 and the words Execute has no case for included, moves pc on by 2,
\* or by 4 when the word is a skip whose condition holds.
C15_Progress ==
  (Stepped /\ ~SetsPc(WordAt(Before))) =>
    pc = Before.pc +
           (IF ClassOf(WordAt(Before)) \in {3, 4, 5, 9}
               /\ SkipTaken(Before, WordAt(Before)) THEN 4 ELSE 2)

----------------------------------------------------------------------------
\* The last Execute fetched its word inside memory.
Fetched == Len(hist) > 0 /\ Before.pc + 1 < memSize

\* C16: the return word 0x00EE executed with an empty call stack (sp = 0)
\* ends in a fatal outcome instead of going on to the next instruction.
C16_Underflow ==
  (Fetched /\ WordAt(Before) = 238 /\ Before.sp = 0) => status = "panic"

----------------------------------------------------------------------------
\* C17: every display cell holds 0 or 1, and the display differs from its
\* previous state only across a clear-screen or a draw-sprite cycle.
C17_Cells ==
  /\ \A k \in 0..(gfxSize - 1) : gfx[k] \in {0, 1}
  /\ (Stepped /\ gfx # Before.gfx) =>
       (IsDrawWord(WordAt(Before)) \/ IsClearWord(WordAt(Before)))

----------------------------------------------------------------------------
\* C18: index never exceeds 0x0FFF, so memory[index] of the store and read
\* words is always a byte of the 4096-byte memory.
C18_IndexBound == index <= 4095 /\ index < memSize

C18_Witness ==
  /\ Stepped
  /\ IsStorWord(WordAt(Before))
  /\ Before.index = 4095
  /\ Before.memory[4095] = 0
  /\ memory[4095] = 171

----------------------------------------------------------------------------
\* C19 as stated: pc is even in every reachable state.
C19_PcEven == pc % 2 = 0

\* A jump or call word whose target address is odd.
OddTransfer(w) == ClassOf(w) \in {1, 2} /\ w % 2 = 1

\* C19: pc is even after Init and LoadProgram, and a cycle that starts at an
\* even pc ends at an even pc unless its word is a jump or call to an odd
\* address.
C19_PcEvenStep ==
  /\ cycles = 0 => pc % 2 = 0
  /\ (Stepped /\ Before.pc % 2 = 0 /\ ~OddTransfer(WordAt(Before))) => pc % 2 = 0

C19_Witness ==
  /\ Stepped
  /\ ClassOf(WordAt(Before)) = 1
  /\ ~OddTransfer(WordAt(Before))
  /\ pc = 516
  /\ Before.pc = 512

----------------------------------------------------------------------------
\* C20: pc stays in [0, 4095), so Decode's memory[pc] and memory[pc+1] are
\* always bytes of the memory.
C20_FetchInBounds == pc >= 0 /\ pc < memSize - 1

====
